---- MODULE Spec2Model ----
(***************************************************************************)
(* Model of image-to-hsds: the two-stage pipeline of extract_hsds.py       *)
(* (DeepSeek OCR, then text extraction, summary and JSON persistence) and  *)
(* the standalone OCR script test_deepseek_ocr.py.                         *)
(*                                                                         *)
(* One run of one script is one behaviour.  Every blocking call of a       *)
(* script is an action whose outcome is drawn from Outcomes: it returns,   *)
(* it raises an Exception, or a KeyboardInterrupt is delivered while it    *)
(* runs.  What the external models (transformers, BAML, the file system)   *)
(* answer is not in the source, so it is a nondeterministic choice.        *)
(***************************************************************************)
EXTENDS Integers, Sequences, FiniteSets, TLC

VARIABLES
    script,        \* which entry point runs: "extract_hsds" or "test_deepseek_ocr"
    pc,            \* position of the run in main()
    imageExists,   \* whether image_path names an existing file
    cudaAvailable, \* torch.cuda.is_available()
    mpsAvailable,  \* torch.backends.mps.is_available()
    argvMode,      \* test_deepseek_ocr: sys.argv[2], <<>> when not given
    mode,          \* test_deepseek_ocr: main's mode, the argument of test_deepseek_ocr
    ocrMode,       \* test_deepseek_ocr: the function's own mode, reassigned on fallback
    config,        \* test_deepseek_ocr: modes[mode] once resolved, else <<>>
    device,        \* the selected device, "" before selection
    loadCalls,     \* number of from_pretrained model loads
    inferCalls,    \* number of model.infer calls
    inferArgs,     \* <<base_size, image_size, crop_mode>> handed to model.infer, else <<>>
    tempDir,       \* whether the OCR output directory was created
    ocr_result,    \* <<>> until model.infer returned, then <<text>>: what it returned
    ocr_text,      \* <<>> while unassigned, <<text>> once the OCR stage returned to main
    ocrFile,       \* the OCR text file: <<>> when not written, else <<[name, content]>>
    extractCalls,  \* number of b.ExtractHSDSFromText calls
    extractArg,    \* <<>> or <<text>>: the argument of the extraction call
    hsds_data,     \* <<>> while unassigned, <<record>> once extraction returned
    stdout,        \* the summary lines printed by print_summary
    jsonFile,      \* the JSON output file: <<>> when not written, <<text>> otherwise
    handler,       \* which except clause of main ran: "none", "KeyboardInterrupt", "Exception"
    traceback,     \* whether traceback.print_exc() ran
    exitCode,      \* process exit status, NoExit while running
    failedAt,      \* the statement that raised or was interrupted, "" when none
    events         \* history of the stage events of the run, in order

vars == <<script, pc, imageExists, cudaAvailable, mpsAvailable, argvMode, mode,
          ocrMode, config, device, loadCalls, inferCalls, inferArgs, tempDir,
          ocr_result, ocr_text, ocrFile, extractCalls, extractArg, hsds_data, stdout,
          jsonFile, handler, traceback, exitCode, failedAt, events>>

----------------------------------------------------------------------------
(* Bounds *)

MaxTextLen == 2
MaxServices == 2
MaxSchedules == 1
MaxPhones == 1
MaxAddresses == 1

NoExit == -1

----------------------------------------------------------------------------
(* Python values *)

\* An optional value: None is <<>>, a present value v is <<v>>.
None == <<>>
Some(v) == <<v>>

\* Python truthiness of an optional string or of a list.
Truthy(v) == IF v = <<>> THEN FALSE
             ELSE IF v[1] = "" THEN FALSE
             ELSE TRUE

RECURSIVE SeqsUpTo(_, _)
SeqsUpTo(S, n) ==
    IF n = 0 THEN {<<>>}
    ELSE LET shorter == SeqsUpTo(S, n - 1)
         IN  shorter \cup {Append(s, x) : s \in {t \in shorter : Len(t) = n - 1}, x \in S}

Prefix(s, n) == SubSeq(s, 1, n)

\* The texts model.infer may return: the prefixes of one document, so that a
\* truncated text is a different text.
Document == <<"#", "a", "b", "c">>
OcrTexts == {Prefix(Document, n) : n \in 0..MaxTextLen}

Outcomes == {"return", "raise", "interrupt"}

----------------------------------------------------------------------------
(* The HSDSData record: the fields print_summary and model_dump read *)

OptTexts == {None, Some(""), Some("x")}

Schedules ==
    {[description |-> d, freq |-> "WEEKLY", byday |-> b,
      opens_at |-> "09:00", closes_at |-> "17:00"] : d \in OptTexts, b \in OptTexts}

PhoneNumbers == {[number |-> "555-0100", phone_type |-> "voice"]}

Addresses ==
    {[address_1 |-> "1 Main St", city |-> "Springfield", state_province |-> "IL",
      postal_code |-> "62701", address_type |-> "physical"]}

Service(n, e, f, ss, ps) ==
    [name |-> n, description |-> "svc", status |-> "active", eligibility |-> e,
     fees |-> f, schedules |-> ss, phones |-> ps]

Location(n, d, as) == [name |-> n, description |-> d, addresses |-> as]

ServiceAtLocation(s, l) == [service |-> s, location |-> l]

\* Every combination of optional fields and nested lists, for one service.
FullSALs ==
    {ServiceAtLocation(Service("Food Pantry", e, f, ss, ps), Location("Hall", d, as)) :
        e \in OptTexts, f \in {None, Some("x")},
        ss \in SeqsUpTo(Schedules, MaxSchedules),
        ps \in SeqsUpTo(PhoneNumbers, MaxPhones), d \in {None, Some("x")},
        as \in SeqsUpTo(Addresses, MaxAddresses)}

\* Distinguishable services and locations, for records with several entries.
CoreSALs ==
    {ServiceAtLocation(Service(n, e, None, <<>>, <<>>), Location(l, None, <<>>)) :
        n \in {"Food Pantry", "Clinic"}, e \in {None, Some("x")}, l \in {"Hall", "Annex"}}

HSDSData(u, sals) ==
    [organization |-> [name |-> "Org", description |-> "desc", url |-> u],
     services_at_locations |-> sals]

\* The records print_summary and save_to_json are applied to.
Records ==
    {HSDSData(u, <<>>) : u \in OptTexts}
    \cup {HSDSData(None, <<sal>>) : sal \in FullSALs}
    \cup {HSDSData(u, sals) : u \in OptTexts,
              sals \in {s \in SeqsUpTo(CoreSALs, MaxServices) : Len(s) >= 2}}

\* The records the extraction capability returns in a run of the pipeline.
SampleRecords ==
    {HSDSData(u, <<>>) : u \in OptTexts}
    \cup {HSDSData(Some("x"), <<sal>>) : sal \in CoreSALs}

----------------------------------------------------------------------------
(* print_summary: the lines it prints, in order *)

\* One printed line: what it shows, the number in it (0 when none), and the
\* formatted field values in it.
Line(tag, idx, args) == [tag |-> tag, idx |-> idx, args |-> args]

Rule == Line("RULE", 0, <<>>)

\* An f-string's rendering of an optional text.
Format(v) == IF v = None THEN "None" ELSE v[1]

\* Mutant: the "Days:" line printed whether or not there is a byday.
ScheduleEntry_days_always(schedule) ==
    <<Line("Schedule entry", 0,
           <<IF Truthy(schedule.description) THEN Format(schedule.description)
                                             ELSE "Schedule">>),
      Line("Frequency", 0, <<schedule.freq>>),
      Line("Days", 0, <<Format(schedule.byday)>>),
      Line("Hours", 0, <<schedule.opens_at, schedule.closes_at>>)>>

\* The body of the loop over sal.service.schedules.
ScheduleEntry(schedule) ==
    <<Line("Schedule entry", 0,
           <<IF Truthy(schedule.description) THEN Format(schedule.description)
                                             ELSE "Schedule">>),
      Line("Frequency", 0, <<schedule.freq>>)>>
    \o (IF Truthy(schedule.byday)
          THEN <<Line("Days", 0, <<Format(schedule.byday)>>)>> ELSE <<>>)
    \o <<Line("Hours", 0, <<schedule.opens_at, schedule.closes_at>>)>>

RECURSIVE ScheduleLines(_)
ScheduleLines(schedules) ==
    IF schedules = <<>> THEN <<>>
    ELSE ScheduleEntry(Head(schedules)) \o ScheduleLines(Tail(schedules))

RECURSIVE PhoneLines(_)
PhoneLines(phones) ==
    IF phones = <<>> THEN <<>>
    ELSE <<Line("Phone entry", 0, <<Head(phones).number, Head(phones).phone_type>>)>>
         \o PhoneLines(Tail(phones))

RECURSIVE AddressLines(_)
AddressLines(addresses) ==
    IF addresses = <<>> THEN <<>>
    ELSE LET addr == Head(addresses)
         IN  <<Line("Address", 0, <<addr.address_1>>),
               Line("City", 0, <<addr.city, addr.state_province, addr.postal_code>>),
               Line("Type", 0, <<addr.address_type>>)>>
             \o AddressLines(Tail(addresses))

\* Mutant: enumerate without its start of 1.
ServiceHeading_zero_based(idx, sal) == Line("SERVICE", idx - 1, <<sal.service.name>>)

\* print(f"\n   [{idx}] SERVICE: {sal.service.name}")
ServiceHeading(idx, sal) == Line("SERVICE", idx, <<sal.service.name>>)

\* The body of the loop over enumerate(services_at_locations, 1).
SalLines(idx, sal) ==
    <<ServiceHeading(idx, sal),
      Line("Description", 0, <<sal.service.description>>),
      Line("Status", 0, <<sal.service.status>>)>>
    \o (IF Truthy(sal.service.eligibility)
          THEN <<Line("Eligibility", 0, <<Format(sal.service.eligibility)>>)>> ELSE <<>>)
    \o (IF Truthy(sal.service.fees)
          THEN <<Line("Fees", 0, <<Format(sal.service.fees)>>)>> ELSE <<>>)
    \o (IF sal.service.schedules # <<>>
          THEN <<Line("Schedules", 0, <<>>)>> \o ScheduleLines(sal.service.schedules)
          ELSE <<>>)
    \o (IF sal.service.phones # <<>>
          THEN <<Line("Phone Numbers", 0, <<>>)>> \o PhoneLines(sal.service.phones)
          ELSE <<>>)
    \o <<Line("LOCATION", 0, <<sal.location.name>>)>>
    \o (IF Truthy(sal.location.description)
          THEN <<Line("Location description", 0, <<Format(sal.location.description)>>)>>
          ELSE <<>>)
    \o AddressLines(sal.location.addresses)

RECURSIVE EnumerateLines(_, _)
EnumerateLines(sals, idx) ==
    IF idx > Len(sals) THEN <<>>
    ELSE SalLines(idx, sals[idx]) \o EnumerateLines(sals, idx + 1)

print_summary(data) ==
    <<Rule, Line("TITLE", 0, <<>>), Rule,
      Line("ORGANIZATION", 0, <<>>),
      Line("Name", 0, <<data.organization.name>>),
      Line("Org description", 0, <<data.organization.description>>)>>
    \o (IF Truthy(data.organization.url)
          THEN <<Line("Website", 0, <<Format(data.organization.url)>>)>> ELSE <<>>)
    \o <<Line("SERVICES & LOCATIONS", Len(data.services_at_locations), <<>>)>>
    \o EnumerateLines(data.services_at_locations, 1)
    \o <<Rule>>


----------------------------------------------------------------------------
(* hsds_to_dict and json: the dictionary model_dump builds, the text         *)
(* json.dump writes, and what json.load reads back from that text           *)

\* Python values as model_dump returns them and as json.load builds them.
PyNone == [t |-> "None"]
PyStr(s) == [t |-> "str", s |-> s]
PyList(xs) == [t |-> "list", xs |-> xs]
PyDict(kvs) == [t |-> "dict", kvs |-> kvs]    \* kvs: <<key, value>> in insertion order
PyError == [t |-> "error"]

\* Mutant: an absent field dumped as the text "None".
DumpOpt_as_text(v) == PyStr(Format(v))

DumpOpt(v) == IF v = None THEN PyNone ELSE PyStr(v[1])

DumpSchedule(x) ==
    PyDict(<< <<"description", DumpOpt(x.description)>>, <<"freq", PyStr(x.freq)>>,
              <<"byday", DumpOpt(x.byday)>>, <<"opens_at", PyStr(x.opens_at)>>,
              <<"closes_at", PyStr(x.closes_at)>> >>)

DumpPhone(x) ==
    PyDict(<< <<"number", PyStr(x.number)>>, <<"phone_type", PyStr(x.phone_type)>> >>)

DumpAddress(x) ==
    PyDict(<< <<"address_1", PyStr(x.address_1)>>, <<"city", PyStr(x.city)>>,
              <<"state_province", PyStr(x.state_province)>>,
              <<"postal_code", PyStr(x.postal_code)>>,
              <<"address_type", PyStr(x.address_type)>> >>)

DumpService(x) ==
    PyDict(<< <<"name", PyStr(x.name)>>, <<"description", PyStr(x.description)>>,
              <<"status", PyStr(x.status)>>, <<"eligibility", DumpOpt(x.eligibility)>>,
              <<"fees", DumpOpt(x.fees)>>,
              <<"schedules", PyList([i \in 1..Len(x.schedules) |-> DumpSchedule(x.schedules[i])])>>,
              <<"phones", PyList([i \in 1..Len(x.phones) |-> DumpPhone(x.phones[i])])>> >>)

DumpLocation(x) ==
    PyDict(<< <<"name", PyStr(x.name)>>, <<"description", DumpOpt(x.description)>>,
              <<"addresses", PyList([i \in 1..Len(x.addresses) |-> DumpAddress(x.addresses[i])])>> >>)

DumpSal(x) ==
    PyDict(<< <<"service", DumpService(x.service)>>, <<"location", DumpLocation(x.location)>> >>)

\* hsds_data.model_dump(): every field kept, None included, nested models as dicts.
hsds_to_dict(hsds) ==
    PyDict(<< <<"organization",
                PyDict(<< <<"name", PyStr(hsds.organization.name)>>,
                          <<"description", PyStr(hsds.organization.description)>>,
                          <<"url", DumpOpt(hsds.organization.url)>> >>)>>,
              <<"services_at_locations",
                PyList([i \in 1..Len(hsds.services_at_locations) |->
                            DumpSal(hsds.services_at_locations[i])])>> >>)

\* The JSON text, as its tokens.
Tok(k) == [k |-> k, s |-> "", n |-> 0]
StrTok(s) == [k |-> "string", s |-> s, n |-> 0]
Newline(indent) == [k |-> "newline", s |-> "", n |-> indent]

IndentWidth == 2

RECURSIVE json_dumps(_, _)
RECURSIVE DumpItems(_, _, _)
RECURSIVE DumpMembers(_, _, _)

\* The items of a list from index i on, each on its own line at this level.
DumpItems(xs, i, level) ==
    IF i > Len(xs) THEN <<>>
    ELSE <<Newline(IndentWidth * level)>> \o json_dumps(xs[i], level)
         \o (IF i < Len(xs) THEN <<Tok(",")>> ELSE <<>>)
         \o DumpItems(xs, i + 1, level)

DumpMembers(kvs, i, level) ==
    IF i > Len(kvs) THEN <<>>
    ELSE <<Newline(IndentWidth * level), StrTok(kvs[i][1]), Tok(":")>>
         \o json_dumps(kvs[i][2], level)
         \o (IF i < Len(kvs) THEN <<Tok(",")>> ELSE <<>>)
         \o DumpMembers(kvs, i + 1, level)

\* json.dump(value, f, indent=2, ensure_ascii=False), for a value at nesting level.
json_dumps(v, level) ==
    CASE v.t = "None" -> <<Tok("null")>>
      [] v.t = "str"  -> <<StrTok(v.s)>>
      [] v.t = "list" ->
            IF v.xs = <<>> THEN <<Tok("["), Tok("]")>>
            ELSE <<Tok("[")>> \o DumpItems(v.xs, 1, level + 1)
                 \o <<Newline(IndentWidth * level), Tok("]")>>
      [] v.t = "dict" ->
            IF v.kvs = <<>> THEN <<Tok("{"), Tok("}")>>
            ELSE <<Tok("{")>> \o DumpMembers(v.kvs, 1, level + 1)
                 \o <<Newline(IndentWidth * level), Tok("}")>>

\* json.load: a recursive-descent reader; each operator returns the value read
\* and the position after it.
Parsed(v, i) == [v |-> v, i |-> i]

RECURSIVE SkipWhitespace(_, _)
SkipWhitespace(toks, i) ==
    IF i <= Len(toks) /\ toks[i].k = "newline" THEN SkipWhitespace(toks, i + 1) ELSE i

RECURSIVE ParseValue(_, _)
RECURSIVE ParseItems(_, _, _)
RECURSIVE ParseMembers(_, _, _)

ParseItems(toks, i, acc) ==
    LET j == SkipWhitespace(toks, i) IN
    IF j > Len(toks) THEN Parsed(PyError, j)
    ELSE IF toks[j].k = "]" THEN Parsed(PyList(acc), j + 1)
    ELSE IF toks[j].k = "," THEN ParseItems(toks, j + 1, acc)
    ELSE LET r == ParseValue(toks, j)
         IN  IF r.v = PyError THEN r ELSE ParseItems(toks, r.i, Append(acc, r.v))

ParseMembers(toks, i, acc) ==
    LET j == SkipWhitespace(toks, i) IN
    IF j > Len(toks) THEN Parsed(PyError, j)
    ELSE IF toks[j].k = "}" THEN Parsed(PyDict(acc), j + 1)
    ELSE IF toks[j].k = "," THEN ParseMembers(toks, j + 1, acc)
    ELSE IF toks[j].k = "string" /\ j + 1 <= Len(toks) /\ toks[j + 1].k = ":"
         THEN LET r == ParseValue(toks, j + 2)
              IN  IF r.v = PyError THEN r
                  ELSE ParseMembers(toks, r.i, Append(acc, <<toks[j].s, r.v>>))
    ELSE Parsed(PyError, j)

ParseValue(toks, i) ==
    LET j == SkipWhitespace(toks, i) IN
    IF j > Len(toks) THEN Parsed(PyError, j)
    ELSE CASE toks[j].k = "null"   -> Parsed(PyNone, j + 1)
           [] toks[j].k = "string" -> Parsed(PyStr(toks[j].s), j + 1)
           [] toks[j].k = "["      -> ParseItems(toks, j + 1, <<>>)
           [] toks[j].k = "{"      -> ParseMembers(toks, j + 1, <<>>)
           [] OTHER                -> Parsed(PyError, j)

json_loads(toks) ==
    LET r == ParseValue(toks, 1)
    IN  IF r.v # PyError /\ SkipWhitespace(toks, r.i) = Len(toks) + 1 THEN r.v ELSE PyError


----------------------------------------------------------------------------
(* extract_hsds.py: main() and the stages it calls *)

\* Mutant: the extraction call moved before the write of the OCR text.
Stages_extract_before_save ==
    <<"prompt", "load_model", "select_device", "make_temp_output", "infer",
      "extract", "save_ocr_text", "print_summary", "save_to_json", "complete">>

\* The statements of main's try block, in program order; the four from
\* "load_model" to "infer" are the body of extract_text_with_deepseek_ocr.
Stages ==
    <<"prompt", "load_model", "select_device", "make_temp_output", "infer",
      "save_ocr_text", "extract", "print_summary", "save_to_json", "complete">>

OcrStages == {"load_model", "select_device", "make_temp_output", "infer"}

IndexOf(stage) == CHOOSE i \in 1..Len(Stages) : Stages[i] = stage

\* The statement that runs when the one at `stage` returns; falling off the
\* end of main ends the process.
After(stage) ==
    IF IndexOf(stage) = Len(Stages) THEN "exit" ELSE Stages[IndexOf(stage) + 1]

\* Mutant: a bare "except Exception" first, catching the interrupt too.
Unwind_interrupt_as_exception(outcome, stage) ==
    CASE outcome = "return"    -> After(stage)
      [] outcome = "raise"     -> "except_Exception"
      [] outcome = "interrupt" -> "except_Exception"

\* Mutant: a stage that raised is tried again.
Unwind_retry(outcome, stage) ==
    CASE outcome = "return"    -> After(stage)
      [] outcome = "raise"     -> stage
      [] outcome = "interrupt" -> "except_KeyboardInterrupt"

\* Mutant: an Exception is swallowed and the run goes on with the next stage.
Unwind_swallow(outcome, stage) ==
    CASE outcome = "return"    -> After(stage)
      [] outcome = "raise"     -> After(stage)
      [] outcome = "interrupt" -> "except_KeyboardInterrupt"

\* try/except of main: a returning statement is followed by the next one, an
\* Exception or a KeyboardInterrupt leaves the try block for its except clause.
Unwind(outcome, stage) ==
    CASE outcome = "return"    -> After(stage)
      [] outcome = "raise"     -> "except_Exception"
      [] outcome = "interrupt" -> "except_KeyboardInterrupt"

\* sys.exit(0) of the KeyboardInterrupt clause, sys.exit(1) of the Exception
\* clause, and the status of a process whose main returned.
KeyboardInterruptExit == 0
\* Mutant: the Exception clause exits like the clause above it.
ExceptionExit_as_cancel == KeyboardInterruptExit
ExceptionExit == 1
NormalExit == 0

\* device = "cuda" if ... else "mps" if ... else "cpu"
SelectedDevice(cuda, mps) == IF cuda THEN "cuda" ELSE IF mps THEN "mps" ELSE "cpu"

\* Mutant: the base preset's image size left in the call.
GundamArgs_base_tiles == <<1024, 1024, TRUE>>

\* The arguments extract_text_with_deepseek_ocr gives model.infer.
GundamArgs == <<1024, 640, TRUE>>

\* ocr_output_file of main, as directory, stem and suffix.
OcrOutputFile == <<"./hsds_outputs/", "ocr_extracted_text", ".txt">>

File(name, content) == <<[name |-> name, content |-> content]>>

\* save_ocr_text: the file after the with block closed it.
save_ocr_text(text, output_path) == File(output_path, text)

\* What is on disk when a write of `content` did not finish: nothing new (the
\* directory or the open failed) or a truncated file.
Partial(old, name, content) ==
    {old} \cup {File(name, Prefix(content, n)) : n \in {0, Len(content) \div 2}}

\* The variables only test_deepseek_ocr.py uses.
testVars == <<argvMode, mode, ocrMode, config>>

Step(stage, outcome) ==
    /\ pc' = Unwind(outcome, stage)
    /\ failedAt' = IF outcome = "return" THEN failedAt ELSE stage
    /\ UNCHANGED <<script, imageExists, cudaAvailable, mpsAvailable, testVars,
                   handler, traceback, exitCode>>

\* Lines 242-247: the Ollama notice and input().
Prompt ==
    /\ script = "extract_hsds" /\ pc = "prompt"
    /\ \E outcome \in Outcomes :
        /\ Step("prompt", outcome)
        /\ events' = IF outcome = "return" THEN events ELSE Append(events, outcome)
    /\ UNCHANGED <<device, loadCalls, inferCalls, inferArgs, tempDir, ocr_result, ocr_text, ocrFile,
                   extractCalls, extractArg, hsds_data, stdout, jsonFile>>

\* Lines 52-63: AutoTokenizer.from_pretrained and AutoModel.from_pretrained.
LoadModel ==
    /\ script = "extract_hsds" /\ pc = "load_model"
    /\ loadCalls' = loadCalls + 1
    /\ \E outcome \in Outcomes :
        /\ Step("load_model", outcome)
        /\ events' = events \o (IF outcome = "return" THEN <<"ocr_call">>
                                                         ELSE <<"ocr_call", outcome>>)
    /\ UNCHANGED <<device, inferCalls, inferArgs, tempDir, ocr_result, ocr_text, ocrFile,
                   extractCalls, extractArg, hsds_data, stdout, jsonFile>>

\* Lines 65-74: the device is chosen and the model moved to it.
SelectDevice ==
    /\ script = "extract_hsds" /\ pc = "select_device"
    /\ device' = SelectedDevice(cudaAvailable, mpsAvailable)
    /\ \E outcome \in Outcomes :
        /\ Step("select_device", outcome)
        /\ events' = IF outcome = "return" THEN events ELSE Append(events, outcome)
    /\ UNCHANGED <<loadCalls, inferCalls, inferArgs, tempDir, ocr_result, ocr_text, ocrFile,
                   extractCalls, extractArg, hsds_data, stdout, jsonFile>>

\* Lines 83-85: temp_output.mkdir(parents=True, exist_ok=True).
MakeTempOutput ==
    /\ script = "extract_hsds" /\ pc = "make_temp_output"
    /\ \E outcome \in Outcomes :
        /\ Step("make_temp_output", outcome)
        /\ tempDir' \in (IF outcome = "return" THEN {TRUE} ELSE {FALSE, TRUE})
        /\ events' = IF outcome = "return" THEN events ELSE Append(events, outcome)
    /\ UNCHANGED <<device, loadCalls, inferCalls, inferArgs, ocr_result, ocr_text, ocrFile,
                   extractCalls, extractArg, hsds_data, stdout, jsonFile>>

\* Mutant: the 500-character preview returned instead of the whole text.
ReturnedText_truncated(text) == Prefix(text, Len(text) - 1)

\* return ocr_result: the text goes back to main as model.infer gave it.
ReturnedText(text) == text

\* Lines 87-110 and the assignment of line 250: model.infer runs once with the
\* Gundam arguments; its result is returned as it is and bound to ocr_text.
\* What model.infer does with a path that names no file is the library's
\* business, so every outcome is possible there too.
Infer ==
    /\ script = "extract_hsds" /\ pc = "infer"
    /\ inferCalls' = inferCalls + 1
    /\ inferArgs' = GundamArgs
    /\ \E outcome \in Outcomes :
        /\ Step("infer", outcome)
        /\ IF outcome = "return"
             THEN /\ \E text \in OcrTexts :
                        /\ ocr_result' = Some(text)
                        /\ ocr_text' = Some(ReturnedText(text))
                  /\ events' = Append(events, "ocr_return")
             ELSE /\ UNCHANGED <<ocr_result, ocr_text>>
                  /\ events' = Append(events, outcome)
    /\ UNCHANGED <<device, loadCalls, tempDir, ocrFile,
                   extractCalls, extractArg, hsds_data, stdout, jsonFile>>

\* Lines 252-254: save_ocr_text(ocr_text, ocr_output_file).
SaveOcrText ==
    /\ script = "extract_hsds" /\ pc = "save_ocr_text"
    /\ \E outcome \in Outcomes :
        /\ Step("save_ocr_text", outcome)
        /\ IF outcome = "return"
             THEN /\ ocrFile' = save_ocr_text(ocr_text[1], OcrOutputFile)
                  /\ events' = Append(events, "ocr_write")
             ELSE /\ ocrFile' \in Partial(ocrFile, OcrOutputFile, ocr_text[1])
                  /\ events' = Append(events, outcome)
    /\ UNCHANGED <<device, loadCalls, inferCalls, inferArgs, tempDir, ocr_result, ocr_text,
                   extractCalls, extractArg, hsds_data, stdout, jsonFile>>

\* Lines 256-257 and 113-133: one call of b.ExtractHSDSFromText(ocr_text=ocr_text),
\* which returns a validated record or raises.
ExtractHsdsDataFromText ==
    /\ script = "extract_hsds" /\ pc = "extract"
    /\ extractCalls' = extractCalls + 1
    /\ extractArg' = ocr_text
    /\ \E outcome \in Outcomes :
        /\ Step("extract", outcome)
        /\ IF outcome = "return"
             THEN /\ \E record \in SampleRecords : hsds_data' = Some(record)
                  /\ events' = events \o <<"extract_call", "extract_return">>
             ELSE /\ hsds_data' = hsds_data
                  /\ events' = events \o <<"extract_call", outcome>>
    /\ UNCHANGED <<device, loadCalls, inferCalls, inferArgs, tempDir, ocr_result, ocr_text, ocrFile,
                   stdout, jsonFile>>

\* Lines 259-260: print_summary(hsds_data); a print that does not finish leaves
\* the lines before it on the terminal.
PrintSummary ==
    /\ script = "extract_hsds" /\ pc = "print_summary"
    /\ \E outcome \in Outcomes :
        /\ Step("print_summary", outcome)
        /\ LET lines == print_summary(hsds_data[1]) IN
           IF outcome = "return"
             THEN /\ stdout' = lines
                  /\ events' = Append(events, "summary")
             ELSE /\ stdout' \in {Prefix(lines, n) : n \in {0, Len(lines) \div 2}}
                  /\ events' = Append(events, outcome)
    /\ UNCHANGED <<device, loadCalls, inferCalls, inferArgs, tempDir, ocr_result, ocr_text, ocrFile,
                   extractCalls, extractArg, hsds_data, jsonFile>>

\* save_to_json: the text json.dump wrote for hsds_to_dict(hsds_data).
save_to_json(data) == Some(json_dumps(hsds_to_dict(data), 0))

\* Lines 262-264: save_to_json(hsds_data, output_file).
SaveToJson ==
    /\ script = "extract_hsds" /\ pc = "save_to_json"
    /\ \E outcome \in Outcomes :
        /\ Step("save_to_json", outcome)
        /\ LET written == save_to_json(hsds_data[1]) IN
           IF outcome = "return"
             THEN /\ jsonFile' = written
                  /\ events' = Append(events, "json_write")
             ELSE /\ jsonFile' \in {jsonFile} \cup
                        {Some(Prefix(written[1], n)) : n \in {0, Len(written[1]) \div 2}}
                  /\ events' = Append(events, outcome)
    /\ UNCHANGED <<device, loadCalls, inferCalls, inferArgs, tempDir, ocr_result, ocr_text, ocrFile,
                   extractCalls, extractArg, hsds_data, stdout>>

\* Lines 266-274: the closing report; main then returns and the process ends.
Complete ==
    /\ script = "extract_hsds" /\ pc = "complete"
    /\ \E outcome \in Outcomes :
        /\ pc' = Unwind(outcome, "complete")
        /\ failedAt' = IF outcome = "return" THEN failedAt ELSE "complete"
        /\ exitCode' = IF outcome = "return" THEN NormalExit ELSE exitCode
        /\ events' = IF outcome = "return" THEN events ELSE Append(events, outcome)
    /\ UNCHANGED <<script, imageExists, cudaAvailable, mpsAvailable, testVars, handler,
                   traceback, device, loadCalls, inferCalls, inferArgs, tempDir, ocr_result, ocr_text,
                   ocrFile, extractCalls, extractArg, hsds_data, stdout, jsonFile>>

\* Lines 276-278: except KeyboardInterrupt.
ExceptKeyboardInterrupt ==
    /\ script = "extract_hsds" /\ pc = "except_KeyboardInterrupt"
    /\ handler' = "KeyboardInterrupt"
    /\ exitCode' = KeyboardInterruptExit
    /\ pc' = "exit"
    /\ UNCHANGED <<script, imageExists, cudaAvailable, mpsAvailable, testVars, traceback,
                   failedAt, events, device, loadCalls, inferCalls, inferArgs, tempDir,
                   ocr_result, ocr_text, ocrFile, extractCalls, extractArg, hsds_data, stdout, jsonFile>>

\* Lines 279-283: except Exception.
ExceptException ==
    /\ script = "extract_hsds" /\ pc = "except_Exception"
    /\ handler' = "Exception"
    /\ traceback' = TRUE
    /\ exitCode' = ExceptionExit
    /\ pc' = "exit"
    /\ UNCHANGED <<script, imageExists, cudaAvailable, mpsAvailable, testVars,
                   failedAt, events, device, loadCalls, inferCalls, inferArgs, tempDir,
                   ocr_result, ocr_text, ocrFile, extractCalls, extractArg, hsds_data, stdout, jsonFile>>


----------------------------------------------------------------------------
(* test_deepseek_ocr.py: main() and test_deepseek_ocr() *)

\* The values of sys.argv[2] tried: the four presets, and strings that are
\* none of them (an upper-case preset, another word, the empty string).
ArgvModes == {<<>>, <<"tiny">>, <<"small">>, <<"base">>, <<"gundam">>,
              <<"GUNDAM">>, <<"large">>, <<"">>}

\* str.lower() on the strings above.
Lower(m) == IF m = "GUNDAM" THEN "gundam" ELSE m

\* The modes dictionary.
modes ==
    [m \in {"tiny", "small", "base", "gundam"} |->
        CASE m = "tiny"   -> [base_size |-> 512, image_size |-> 512, crop_mode |-> FALSE]
          [] m = "small"  -> [base_size |-> 640, image_size |-> 640, crop_mode |-> FALSE]
          [] m = "base"   -> [base_size |-> 1024, image_size |-> 1024, crop_mode |-> FALSE]
          [] m = "gundam" -> [base_size |-> 1024, image_size |-> 640, crop_mode |-> TRUE]]

\* Mutant: no fallback for a string that is no preset.
ResolveMode_no_fallback(m) == m

\* if mode not in modes: mode = "tiny"
ResolveMode(m) == IF m \notin DOMAIN modes THEN "tiny" ELSE m

\* if torch.cuda.is_available(): ... elif torch.backends.mps.is_available(): ... else: ...
TestDevice(cuda, mps) ==
    CASE cuda           -> "cuda"
      [] ~cuda /\ mps   -> "mps"
      [] OTHER          -> "cpu"

\* output_dir / f"ocr_result_{mode}.txt"
ResultFile(m) == <<"./test_ocr_output/", "ocr_result_", m, ".txt">>

TestStages ==
    <<"parse_args", "resolve_mode", "check_device", "load_model", "make_output_dir",
      "infer", "save_result", "complete">>

TestIndexOf(stage) == CHOOSE i \in 1..Len(TestStages) : TestStages[i] = stage

TestAfter(stage) ==
    IF TestIndexOf(stage) = Len(TestStages) THEN "exit"
    ELSE TestStages[TestIndexOf(stage) + 1]

\* try/except of test_deepseek_ocr.py's main.
TestUnwind(outcome, stage) ==
    CASE outcome = "return"    -> TestAfter(stage)
      [] outcome = "raise"     -> "except_Exception"
      [] outcome = "interrupt" -> "except_KeyboardInterrupt"

\* The variables only extract_hsds.py uses.
pipelineVars == <<extractCalls, extractArg, hsds_data, stdout, jsonFile, events>>

TestStep(stage, outcome) ==
    /\ pc' = TestUnwind(outcome, stage)
    /\ failedAt' = IF outcome = "return" THEN failedAt ELSE stage
    /\ UNCHANGED <<script, imageExists, cudaAvailable, mpsAvailable, argvMode,
                   handler, traceback, exitCode, pipelineVars>>

\* Lines 164-190: the arguments are read and the image is looked for; a
\* missing image ends the process with status 1 before the try block.
TestParseArgs ==
    /\ script = "test_deepseek_ocr" /\ pc = "parse_args"
    /\ mode' = IF argvMode = <<>> THEN "tiny" ELSE Lower(argvMode[1])
    /\ IF imageExists
         THEN /\ pc' = TestAfter("parse_args")
              /\ exitCode' = exitCode
         ELSE /\ pc' = "exit"
              /\ exitCode' = 1
    /\ UNCHANGED <<script, imageExists, cudaAvailable, mpsAvailable, argvMode, ocrMode,
                   config, device, loadCalls, inferCalls, inferArgs, tempDir, ocr_result, ocr_text,
                   ocrFile, handler, traceback, failedAt, pipelineVars>>

\* Lines 44-62: the mode is resolved and looked up; modes[mode] raises
\* KeyError for a key the dictionary does not hold.
TestResolveMode ==
    /\ script = "test_deepseek_ocr" /\ pc = "resolve_mode"
    /\ ocrMode' = ResolveMode(mode)
    /\ IF ocrMode' \in DOMAIN modes
         THEN /\ config' = Some(modes[ocrMode'])
              /\ TestStep("resolve_mode", "return")
         ELSE /\ config' = config
              /\ TestStep("resolve_mode", "raise")
    /\ UNCHANGED <<mode, device, loadCalls, inferCalls, inferArgs, tempDir, ocr_result, ocr_text,
                   ocrFile>>

\* Lines 64-76: the device check.
TestCheckDevice ==
    /\ script = "test_deepseek_ocr" /\ pc = "check_device"
    /\ device' = TestDevice(cudaAvailable, mpsAvailable)
    /\ \E outcome \in Outcomes : TestStep("check_device", outcome)
    /\ UNCHANGED <<mode, ocrMode, config, loadCalls, inferCalls, inferArgs, tempDir,
                   ocr_result, ocr_text, ocrFile>>

\* Lines 78-103: the tokenizer and the model are loaded and the model moved.
TestLoadModel ==
    /\ script = "test_deepseek_ocr" /\ pc = "load_model"
    /\ loadCalls' = loadCalls + 1
    /\ \E outcome \in Outcomes : TestStep("load_model", outcome)
    /\ UNCHANGED <<mode, ocrMode, config, device, inferCalls, inferArgs, tempDir,
                   ocr_result, ocr_text, ocrFile>>

\* Lines 108-110: output_dir.mkdir(parents=True, exist_ok=True).
TestMakeOutputDir ==
    /\ script = "test_deepseek_ocr" /\ pc = "make_output_dir"
    /\ \E outcome \in Outcomes :
        /\ TestStep("make_output_dir", outcome)
        /\ tempDir' \in (IF outcome = "return" THEN {TRUE} ELSE {FALSE, TRUE})
    /\ UNCHANGED <<mode, ocrMode, config, device, loadCalls, inferCalls, inferArgs,
                   ocr_result, ocr_text, ocrFile>>

\* Lines 112-145: model.infer with the sizes and crop mode of config.
TestInfer ==
    /\ script = "test_deepseek_ocr" /\ pc = "infer"
    /\ inferCalls' = inferCalls + 1
    /\ inferArgs' = <<config[1].base_size, config[1].image_size, config[1].crop_mode>>
    /\ \E outcome \in Outcomes :
        /\ TestStep("infer", outcome)
        /\ IF outcome = "return"
             THEN \E result \in OcrTexts :
                      /\ ocr_result' = Some(result)
                      /\ ocr_text' = Some(result)
             ELSE UNCHANGED <<ocr_result, ocr_text>>
    /\ UNCHANGED <<mode, ocrMode, config, device, loadCalls, tempDir, ocrFile>>

\* Lines 147-154: the full result is written to ocr_result_{mode}.txt.
TestSaveResult ==
    /\ script = "test_deepseek_ocr" /\ pc = "save_result"
    /\ \E outcome \in Outcomes :
        /\ TestStep("save_result", outcome)
        /\ IF outcome = "return"
             THEN ocrFile' = File(ResultFile(ocrMode), ocr_text[1])
             ELSE ocrFile' \in Partial(ocrFile, ResultFile(ocrMode), ocr_text[1])
    /\ UNCHANGED <<mode, ocrMode, config, device, loadCalls, inferCalls, inferArgs,
                   tempDir, ocr_result, ocr_text>>

\* Lines 193-208: the closing tips; main then returns.
TestComplete ==
    /\ script = "test_deepseek_ocr" /\ pc = "complete"
    /\ \E outcome \in Outcomes :
        /\ pc' = TestUnwind(outcome, "complete")
        /\ failedAt' = IF outcome = "return" THEN failedAt ELSE "complete"
        /\ exitCode' = IF outcome = "return" THEN NormalExit ELSE exitCode
    /\ UNCHANGED <<script, imageExists, cudaAvailable, mpsAvailable, testVars, handler,
                   traceback, device, loadCalls, inferCalls, inferArgs, tempDir, ocr_result, ocr_text,
                   ocrFile, pipelineVars>>

\* Lines 210-212: except KeyboardInterrupt.
TestExceptKeyboardInterrupt ==
    /\ script = "test_deepseek_ocr" /\ pc = "except_KeyboardInterrupt"
    /\ handler' = "KeyboardInterrupt"
    /\ exitCode' = 0
    /\ pc' = "exit"
    /\ UNCHANGED <<script, imageExists, cudaAvailable, mpsAvailable, testVars, traceback,
                   failedAt, device, loadCalls, inferCalls, inferArgs, tempDir,
                   ocr_result, ocr_text, ocrFile, pipelineVars>>

\* Lines 213-217: except Exception.
TestExceptException ==
    /\ script = "test_deepseek_ocr" /\ pc = "except_Exception"
    /\ handler' = "Exception"
    /\ traceback' = TRUE
    /\ exitCode' = 1
    /\ pc' = "exit"
    /\ UNCHANGED <<script, imageExists, cudaAvailable, mpsAvailable, testVars,
                   failedAt, device, loadCalls, inferCalls, inferArgs, tempDir,
                   ocr_result, ocr_text, ocrFile, pipelineVars>>

----------------------------------------------------------------------------
(* The specification *)

Init ==
    /\ script \in {"extract_hsds", "test_deepseek_ocr"}
    /\ pc = IF script = "extract_hsds" THEN Stages[1] ELSE TestStages[1]
    /\ imageExists \in BOOLEAN
    /\ cudaAvailable \in BOOLEAN
    /\ mpsAvailable \in BOOLEAN
    /\ argvMode \in (IF script = "test_deepseek_ocr" THEN ArgvModes ELSE {<<>>})
    /\ mode = ""
    /\ ocrMode = ""
    /\ config = <<>>
    /\ device = ""
    /\ loadCalls = 0
    /\ inferCalls = 0
    /\ inferArgs = <<>>
    /\ tempDir = FALSE
    /\ ocr_result = <<>>
    /\ ocr_text = <<>>
    /\ ocrFile = <<>>
    /\ extractCalls = 0
    /\ extractArg = <<>>
    /\ hsds_data = <<>>
    /\ stdout = <<>>
    /\ jsonFile = <<>>
    /\ handler = "none"
    /\ traceback = FALSE
    /\ exitCode = NoExit
    /\ failedAt = ""
    /\ events = <<>>

Next ==
    \/ Prompt
    \/ LoadModel
    \/ SelectDevice
    \/ MakeTempOutput
    \/ Infer
    \/ SaveOcrText
    \/ ExtractHsdsDataFromText
    \/ PrintSummary
    \/ SaveToJson
    \/ Complete
    \/ ExceptKeyboardInterrupt
    \/ ExceptException
    \/ TestParseArgs
    \/ TestResolveMode
    \/ TestCheckDevice
    \/ TestLoadModel
    \/ TestMakeOutputDir
    \/ TestInfer
    \/ TestSaveResult
    \/ TestComplete
    \/ TestExceptKeyboardInterrupt
    \/ TestExceptException

Spec == Init /\ [][Next]_vars


(* Reporting and persistence on their own: print_summary and save_to_json    *)
(* applied to every record of Records, from the state main is in when the  *)
(* extraction call has returned.                                           *)

InitReport ==
    /\ script = "extract_hsds"
    /\ pc = "print_summary"
    /\ imageExists = TRUE
    /\ cudaAvailable = FALSE
    /\ mpsAvailable = FALSE
    /\ argvMode = <<>>
    /\ mode = ""
    /\ ocrMode = ""
    /\ config = <<>>
    /\ device = "cpu"
    /\ loadCalls = 1
    /\ inferCalls = 1
    /\ inferArgs = GundamArgs
    /\ tempDir = TRUE
    /\ ocr_result = Some(Prefix(Document, 1))
    /\ ocr_text = Some(Prefix(Document, 1))
    /\ ocrFile = save_ocr_text(Prefix(Document, 1), OcrOutputFile)
    /\ extractCalls = 1
    /\ extractArg = ocr_text
    /\ hsds_data \in {Some(record) : record \in Records}
    /\ stdout = <<>>
    /\ jsonFile = <<>>
    /\ handler = "none"
    /\ traceback = FALSE
    /\ exitCode = NoExit
    /\ failedAt = ""
    /\ events = <<"ocr_call", "ocr_return", "ocr_write", "extract_call", "extract_return">>

NextReport ==
    \/ PrintSummary
    \/ SaveToJson

SpecReport == InitReport /\ [][NextReport]_vars


----------------------------------------------------------------------------
(* Properties of a run of extract_hsds.py *)

Pipeline == script = "extract_hsds"

Last(seq) == seq[Len(seq)]

\* The run was cut short by a KeyboardInterrupt (resp. an Exception).
Interrupted == events # <<>> /\ Last(events) = "interrupt"
Raised == events # <<>> /\ Last(events) = "raise"

Occurs(e) == \E i \in 1..Len(events) : events[i] = e

\* Every stage through the JSON write completed.
Persisted == Occurs("json_write")

\* C1: the OCR text file is written after the OCR stage returned and before
\* the extraction call is issued, so whenever the extraction call has been
\* issued - and in particular when it failed - the file holds the whole OCR
\* text, and it still does when the run has ended.
C1_OcrTextSavedBeforeExtraction ==
    Pipeline =>
        /\ \A i \in 1..Len(events) :
              events[i] = "ocr_write" =>
                  /\ \E j \in 1..(i - 1) : events[j] = "ocr_return"
                  /\ \A j \in 1..(i - 1) : events[j] # "extract_call"
        /\ \A i \in 1..Len(events) :
              events[i] = "extract_call" => \E j \in 1..(i - 1) : events[j] = "ocr_write"
        /\ extractCalls > 0 =>
              /\ ocr_text # <<>>
              /\ ocrFile = File(OcrOutputFile, ocr_text[1])

\* A run whose extraction call raised has ended, the non-empty OCR text on disk.
C1_Witness ==
    /\ Pipeline /\ pc = "exit" /\ failedAt = "extract" /\ Raised
    /\ ocrFile # <<>> /\ Len(ocrFile[1].content) = MaxTextLen

\* C2 as stated: exit code 0 if and only if the run reached Persisted, and a
\* run ended by a stage failure or by a user interrupt exits non-zero.
C2_ExitZeroIffPersisted ==
    (Pipeline /\ exitCode # NoExit) =>
        /\ (exitCode = 0) <=> Persisted
        /\ handler # "none" => exitCode # 0

\* C2 as the code has it: the exit code is 0 exactly when no Exception was
\* raised in main's try block.  A run that returns from main has reached
\* Persisted and exits 0; a run ended by a KeyboardInterrupt exits 0 as well;
\* a run ended by a stage failure exits 1.
C2_ExitZeroIffNoException ==
    (Pipeline /\ exitCode # NoExit) =>
        /\ (exitCode = 0) <=> (handler # "Exception")
        /\ handler = "none" => Persisted
        /\ handler = "KeyboardInterrupt" => (Interrupted /\ exitCode = 0)
        /\ handler = "Exception" => (Raised /\ exitCode = 1)

\* All three endings have happened: this one is the stage failure.
C2_Witness ==
    /\ Pipeline /\ pc = "exit" /\ handler = "Exception" /\ failedAt = "extract"
    /\ exitCode = 1 /\ ~Persisted

\* C3: a KeyboardInterrupt during the OCR stage ends the run through the
\* KeyboardInterrupt clause, never the Exception clause (no traceback), with
\* exit code 0, and the JSON file is not written.
C3_InterruptDuringOcr ==
    (Pipeline /\ Interrupted /\ failedAt \in OcrStages) =>
        /\ pc \in {"except_KeyboardInterrupt", "exit"}
        /\ handler # "Exception"
        /\ ~traceback
        /\ jsonFile = <<>>
        /\ pc = "exit" => (handler = "KeyboardInterrupt" /\ exitCode = 0)

C3_Witness ==
    /\ Pipeline /\ Interrupted /\ failedAt = "infer" /\ pc = "exit"
    /\ handler = "KeyboardInterrupt" /\ exitCode = 0

\* C4: the extraction capability and the OCR inference are each called at
\* most once in a run, exactly once in a run that returns from main, and once
\* a stage has raised or was interrupted no stage runs again: no call is
\* made and no result or file changes.
C4_AtMostOneCallNoRetry ==
    /\ [](Pipeline =>
            /\ inferCalls <= 1
            /\ extractCalls <= 1
            /\ loadCalls <= 1
            /\ (pc = "exit" /\ handler = "none") => (inferCalls = 1 /\ extractCalls = 1))
    /\ [][(Pipeline /\ failedAt # "") =>
            UNCHANGED <<loadCalls, inferCalls, extractCalls, ocr_result, ocr_text, ocrFile,
                        hsds_data, stdout, jsonFile, failedAt, events>>]_vars

\* A run whose extraction call raised has ended, each capability called once.
C4_Witness ==
    /\ Pipeline /\ pc = "exit" /\ failedAt = "extract"
    /\ inferCalls = 1 /\ extractCalls = 1


----------------------------------------------------------------------------
(* Properties of a run of test_deepseek_ocr.py *)

OcrTest == script = "test_deepseek_ocr"

\* The documented preset table, with tiny for every other string.
PresetTriple(m) ==
    CASE m = "tiny"   -> <<512, 512, FALSE>>
      [] m = "small"  -> <<640, 640, FALSE>>
      [] m = "base"   -> <<1024, 1024, FALSE>>
      [] m = "gundam" -> <<1024, 640, TRUE>>
      [] OTHER        -> <<512, 512, FALSE>>

PresetNames == {"tiny", "small", "base", "gundam"}

\* C5: model.infer receives the documented triple of the mode passed to
\* test_deepseek_ocr, and the tiny triple for any other string; resolving the
\* mode never fails, and for such a string the result file is named after
\* "tiny".
C5_PresetTriples ==
    OcrTest =>
        /\ inferCalls > 0 => inferArgs = PresetTriple(mode)
        /\ failedAt # "resolve_mode"
        /\ (mode \notin PresetNames /\ config # <<>>) =>
              /\ ocrMode = "tiny"
              /\ config[1] = [base_size |-> 512, image_size |-> 512, crop_mode |-> FALSE]
        /\ (mode \notin PresetNames /\ ocrFile # <<>>) =>
              ocrFile[1].name = <<"./test_ocr_output/", "ocr_result_", "tiny", ".txt">>
        /\ (mode \in PresetNames /\ ocrFile # <<>>) =>
              ocrFile[1].name = <<"./test_ocr_output/", "ocr_result_", mode, ".txt">>

\* A run given a string that is no preset has written its result file.
C5_Witness ==
    /\ OcrTest /\ mode = "large" /\ pc = "exit" /\ exitCode = 0
    /\ inferArgs = <<512, 512, FALSE>> /\ ocrFile # <<>>

----------------------------------------------------------------------------
(* Properties of both scripts *)

\* C6: when the image path names no file, no model is loaded, no inference
\* and no extraction call is made, and no output file is written.
C6_NoModelCallWithoutImage ==
    ~imageExists =>
        /\ loadCalls = 0
        /\ inferCalls = 0
        /\ extractCalls = 0
        /\ ocrFile = <<>>
        /\ jsonFile = <<>>

----------------------------------------------------------------------------
(* The order of the stages of extract_hsds.py *)

StageOrder == <<"ocr_call", "ocr_return", "ocr_write", "extract_call",
                "extract_return", "summary", "json_write">>

IsStageEvent(e) == \E i \in 1..Len(StageOrder) : StageOrder[i] = e

IsFailure(e) == e \in {"raise", "interrupt"}

\* C10: the stages run only in the order OCR, OCR-text write, extraction,
\* summary, JSON write; a stage that fails is the last thing that runs; an OCR
\* failure leaves no OCR text file, no JSON file and no extraction call; an
\* extraction failure leaves no summary and no JSON file; the JSON file is
\* written only when extraction returned a record and the summary was printed.
C10_StageOrder ==
    Pipeline =>
        /\ LET done == SelectSeq(events, IsStageEvent)
           IN  /\ Len(done) <= Len(StageOrder)
               /\ done = Prefix(StageOrder, Len(done))
        /\ \A i \in 1..Len(events) : IsFailure(events[i]) => i = Len(events)
        /\ (failedAt # "") <=> (events # <<>> /\ IsFailure(Last(events)))
        /\ failedAt # "" => pc \in {"except_Exception", "except_KeyboardInterrupt", "exit"}
        /\ failedAt \in OcrStages =>
              (ocrFile = <<>> /\ jsonFile = <<>> /\ extractCalls = 0 /\ hsds_data = <<>>)
        /\ failedAt = "extract" => (stdout = <<>> /\ jsonFile = <<>> /\ hsds_data = <<>>)
        /\ jsonFile # <<>> =>
              (hsds_data # <<>> /\ Occurs("extract_return") /\ Occurs("summary")
               /\ stdout = print_summary(hsds_data[1]))

\* An OCR failure and, in another run, a complete one.
C10_Witness ==
    /\ Pipeline /\ pc = "exit" /\ failedAt = "infer" /\ Raised /\ handler = "Exception"
    /\ tempDir /\ ocrFile = <<>>


----------------------------------------------------------------------------
(* Properties of print_summary *)

SummaryPrinted == Pipeline /\ hsds_data # <<>> /\ Occurs("summary")

\* The positions of the lines with a tag, and the k-th of them.
Positions(lines, tag) == {i \in 1..Len(lines) : lines[i].tag = tag}

Count(lines, tag) == Cardinality(Positions(lines, tag))

Nth(lines, tag, k) ==
    CHOOSE i \in Positions(lines, tag) :
        Cardinality({j \in Positions(lines, tag) : j <= i}) = k

Has(lines, tag) == Positions(lines, tag) # {}

\* The lines of the k-th service: from its "[k] SERVICE:" line up to the next
\* one, or up to the closing rule.
ServiceBlock(lines, k) ==
    SubSeq(lines, Nth(lines, "SERVICE", k),
           IF k < Count(lines, "SERVICE") THEN Nth(lines, "SERVICE", k + 1) - 1
           ELSE Len(lines) - 1)

\* The lines of the j-th schedule of a block: from its entry line to its
\* "Hours:" line.
ScheduleBlock(block, j) ==
    SubSeq(block, Nth(block, "Schedule entry", j), Nth(block, "Hours", j))

NumPresent(seq, Field(_)) == Cardinality({j \in 1..Len(seq) : Field(seq[j]) # None})

DescriptionOf(x) == x.description
BydayOf(x) == x.byday

\* What C7 says of every optional field but the schedule description, and of
\* empty sequences.
OmitsAbsentFields(data, lines) ==
    /\ Has(lines, "Website") => data.organization.url # None
    /\ Count(lines, "SERVICE") = Len(data.services_at_locations)
    /\ \A k \in 1..Len(data.services_at_locations) :
          LET sal == data.services_at_locations[k]
              block == ServiceBlock(lines, k)
          IN  /\ Has(block, "Eligibility") => sal.service.eligibility # None
              /\ Has(block, "Fees") => sal.service.fees # None
              /\ Has(block, "Location description") => sal.location.description # None
              /\ Count(block, "Days") <= NumPresent(sal.service.schedules, BydayOf)
              /\ sal.service.schedules = <<>> =>
                    ~(Has(block, "Schedules") \/ Has(block, "Schedule entry")
                      \/ Has(block, "Frequency") \/ Has(block, "Days") \/ Has(block, "Hours"))
              /\ sal.service.phones = <<>> =>
                    ~(Has(block, "Phone Numbers") \/ Has(block, "Phone entry"))
              /\ sal.location.addresses = <<>> =>
                    ~(Has(block, "Address") \/ Has(block, "City") \/ Has(block, "Type"))

\* C7 as stated: no line is printed for an absent optional field; in
\* particular a schedule's description line is printed only for a schedule
\* that has a description.
C7_NoLineForAbsentField ==
    SummaryPrinted =>
        LET data == hsds_data[1] IN
        /\ OmitsAbsentFields(data, stdout)
        /\ \A k \in 1..Len(data.services_at_locations) :
              Count(ServiceBlock(stdout, k), "Schedule entry")
                  <= NumPresent(data.services_at_locations[k].service.schedules, DescriptionOf)

\* C7 as the code has it: url, eligibility, fees, byday and location
\* description produce a line only when present, and an empty sequence
\* produces no heading and no entries; but every schedule produces its entry
\* line, which shows the description when there is a non-empty one and the
\* word "Schedule" otherwise, and a schedule's "Days:" line is printed only
\* when that schedule has a byday.
C7_NoLineForAbsentFieldButSchedule ==
    SummaryPrinted =>
        LET data == hsds_data[1] IN
        /\ OmitsAbsentFields(data, stdout)
        /\ \A k \in 1..Len(data.services_at_locations) :
              LET schedules == data.services_at_locations[k].service.schedules
                  block == ServiceBlock(stdout, k)
              IN  /\ Count(block, "Schedule entry") = Len(schedules)
                  /\ Count(block, "Hours") = Len(schedules)
                  /\ \A j \in 1..Len(schedules) :
                        LET lines == ScheduleBlock(block, j) IN
                        /\ Has(lines, "Days") => schedules[j].byday # None
                        /\ lines[1].args =
                              <<IF schedules[j].description \in {None, Some("")}
                                  THEN "Schedule" ELSE schedules[j].description[1]>>

\* The summary of a service whose one schedule has neither description nor
\* byday has been printed, with the placeholder entry line.
C7_Witness ==
    /\ SummaryPrinted
    /\ Len(hsds_data[1].services_at_locations) = 1
    /\ LET service == hsds_data[1].services_at_locations[1].service IN
        /\ service.eligibility = None /\ service.fees = None
        /\ Len(service.schedules) = 1
        /\ service.schedules[1].description = None
        /\ service.schedules[1].byday = None
    /\ hsds_data[1].services_at_locations[1].location.description = None
    /\ \E i \in 1..Len(stdout) :
          stdout[i] = [tag |-> "Schedule entry", idx |-> 0, args |-> <<"Schedule">>]

\* C8: for n entries in services_at_locations the header shows n, and n
\* service blocks follow it, the k-th labelled [k] and naming the k-th
\* service, each holding exactly one LOCATION line, that of its location.
C8_OneBlockPerService ==
    SummaryPrinted =>
        LET sals == hsds_data[1].services_at_locations
            n == Len(sals)
        IN  /\ Count(stdout, "SERVICES & LOCATIONS") = 1
            /\ stdout[Nth(stdout, "SERVICES & LOCATIONS", 1)].idx = n
            /\ Count(stdout, "SERVICE") = n
            /\ Count(stdout, "LOCATION") = n
            /\ \A k \in 1..n :
                  LET block == ServiceBlock(stdout, k) IN
                  /\ Nth(stdout, "SERVICES & LOCATIONS", 1) < Nth(stdout, "SERVICE", k)
                  /\ block[1] = [tag |-> "SERVICE", idx |-> k, args |-> <<sals[k].service.name>>]
                  /\ Count(block, "LOCATION") = 1
                  /\ block[Nth(block, "LOCATION", 1)].args = <<sals[k].location.name>>

\* The summary of a record with two different services at two different
\* locations has been printed.
C8_Witness ==
    /\ SummaryPrinted
    /\ Len(hsds_data[1].services_at_locations) = MaxServices
    /\ hsds_data[1].services_at_locations[1].service.name = "Clinic"
    /\ hsds_data[1].services_at_locations[2].service.name = "Food Pantry"
    /\ hsds_data[1].services_at_locations[1].location.name = "Annex"
    /\ hsds_data[1].services_at_locations[2].location.name = "Hall"
    /\ Count(stdout, "SERVICE") = MaxServices


----------------------------------------------------------------------------
(* Properties of save_to_json *)

JsonSaved == Pipeline /\ hsds_data # <<>> /\ Occurs("json_write")

Keys(d) == {d.kvs[i][1] : i \in 1..Len(d.kvs)}

Get(d, key) == d.kvs[CHOOSE i \in 1..Len(d.kvs) : d.kvs[i][1] = key][2]

\* A parsed JSON value against the field it was written from.
IsText(v, text) == v.t = "str" /\ v.s = text

IsOptional(v, opt) == IF opt = None THEN v.t = "None" ELSE IsText(v, opt[1])

IsObject(v, keys) == v.t = "dict" /\ Keys(v) = keys /\ Len(v.kvs) = Cardinality(keys)

IsListOf(v, seq, Same(_, _)) ==
    /\ v.t = "list"
    /\ Len(v.xs) = Len(seq)
    /\ \A i \in 1..Len(seq) : Same(v.xs[i], seq[i])

SameSchedule(v, x) ==
    /\ IsObject(v, {"description", "freq", "byday", "opens_at", "closes_at"})
    /\ IsOptional(Get(v, "description"), x.description)
    /\ IsText(Get(v, "freq"), x.freq)
    /\ IsOptional(Get(v, "byday"), x.byday)
    /\ IsText(Get(v, "opens_at"), x.opens_at)
    /\ IsText(Get(v, "closes_at"), x.closes_at)

SamePhone(v, x) ==
    /\ IsObject(v, {"number", "phone_type"})
    /\ IsText(Get(v, "number"), x.number)
    /\ IsText(Get(v, "phone_type"), x.phone_type)

SameAddress(v, x) ==
    /\ IsObject(v, {"address_1", "city", "state_province", "postal_code", "address_type"})
    /\ IsText(Get(v, "address_1"), x.address_1)
    /\ IsText(Get(v, "city"), x.city)
    /\ IsText(Get(v, "state_province"), x.state_province)
    /\ IsText(Get(v, "postal_code"), x.postal_code)
    /\ IsText(Get(v, "address_type"), x.address_type)

SameService(v, x) ==
    /\ IsObject(v, {"name", "description", "status", "eligibility", "fees",
                    "schedules", "phones"})
    /\ IsText(Get(v, "name"), x.name)
    /\ IsText(Get(v, "description"), x.description)
    /\ IsText(Get(v, "status"), x.status)
    /\ IsOptional(Get(v, "eligibility"), x.eligibility)
    /\ IsOptional(Get(v, "fees"), x.fees)
    /\ IsListOf(Get(v, "schedules"), x.schedules, SameSchedule)
    /\ IsListOf(Get(v, "phones"), x.phones, SamePhone)

SameLocation(v, x) ==
    /\ IsObject(v, {"name", "description", "addresses"})
    /\ IsText(Get(v, "name"), x.name)
    /\ IsOptional(Get(v, "description"), x.description)
    /\ IsListOf(Get(v, "addresses"), x.addresses, SameAddress)

SameSal(v, x) ==
    /\ IsObject(v, {"service", "location"})
    /\ SameService(Get(v, "service"), x.service)
    /\ SameLocation(Get(v, "location"), x.location)

SameRecord(v, x) ==
    /\ IsObject(v, {"organization", "services_at_locations"})
    /\ IsObject(Get(v, "organization"), {"name", "description", "url"})
    /\ IsText(Get(Get(v, "organization"), "name"), x.organization.name)
    /\ IsText(Get(Get(v, "organization"), "description"), x.organization.description)
    /\ IsOptional(Get(Get(v, "organization"), "url"), x.organization.url)
    /\ IsListOf(Get(v, "services_at_locations"), x.services_at_locations, SameSal)

\* C9: the file save_to_json wrote parses back to a structure with the
\* record's values - the organization's, and the entries of
\* services_at_locations in number and order with their nested schedules,
\* phones and addresses - and save_to_json leaves the record as it was.
C9_JsonRoundTrip ==
    /\ [](JsonSaved => SameRecord(json_loads(jsonFile[1]), hsds_data[1]))
    /\ [][pc = "save_to_json" => hsds_data' = hsds_data]_vars

\* A record with an absent and an empty optional field, a schedule, a phone
\* and an address has been saved.
C9_Witness ==
    /\ JsonSaved
    /\ Len(hsds_data[1].services_at_locations) = 1
    /\ LET sal == hsds_data[1].services_at_locations[1] IN
        /\ sal.service.eligibility = Some("")
        /\ sal.service.fees = None
        /\ Len(sal.service.schedules) = MaxSchedules
        /\ Len(sal.service.phones) = MaxPhones
        /\ Len(sal.location.addresses) = MaxAddresses
        /\ sal.location.description = Some("x")
    /\ Len(jsonFile[1]) > 100


----------------------------------------------------------------------------
(* The data flow from OCR to extraction *)

\* C11: in a run of the two-stage pipeline the text given to the extraction
\* capability is the value model.infer returned, and so is the content of the
\* OCR text file: nothing in between alters, truncates or replaces it, and
\* the extraction call has that text as its only argument (no image).
C11_OcrTextUnaltered ==
    Pipeline =>
        /\ ocr_text # <<>> => (ocr_result # <<>> /\ ocr_text[1] = ocr_result[1])
        /\ Occurs("ocr_write") =>
              (ocrFile # <<>> /\ ocrFile[1].content = ocr_result[1])
        /\ extractCalls = 0 => extractArg = <<>>
        /\ extractCalls > 0 =>
              /\ Len(extractArg) = 1
              /\ extractArg[1] = ocr_result[1]
              /\ ocrFile[1].content = extractArg[1]

\* The extraction call was made with the longest text, which is on disk.
C11_Witness ==
    /\ Pipeline /\ pc = "exit" /\ extractCalls = 1 /\ hsds_data # <<>>
    /\ Len(ocr_result[1]) = MaxTextLen
    /\ extractArg = ocr_result
    /\ ocrFile[1].content = ocr_result[1]

----------------------------------------------------------------------------
(* The OCR stage of the pipeline against test_deepseek_ocr.py *)

\* Dedicated accelerator first, then the integrated one, then the processor.
PriorityDevice(cuda, mps) ==
    IF cuda THEN "cuda" ELSE IF mps THEN "mps" ELSE "cpu"

\* C12: the pipeline's OCR stage always calls model.infer with
\* (1024, 640, True), the gundam entry of the test script's modes; both
\* scripts select cuda before mps before cpu from the same availability, and
\* whichever device is selected the pipeline passes the same arguments.
C12_GundamArgsAnyDevice ==
    /\ (Pipeline /\ inferCalls > 0) =>
          /\ inferArgs = <<1024, 640, TRUE>>
          /\ inferArgs = <<modes["gundam"].base_size, modes["gundam"].image_size,
                           modes["gundam"].crop_mode>>
          /\ device \in {"cuda", "mps", "cpu"}
    /\ (OcrTest /\ inferCalls > 0 /\ mode = "gundam") => inferArgs = <<1024, 640, TRUE>>
    /\ device # "" => device = PriorityDevice(cudaAvailable, mpsAvailable)
    /\ \A cuda \in BOOLEAN, mps \in BOOLEAN :
          SelectedDevice(cuda, mps) = TestDevice(cuda, mps)

\* The pipeline ran inference on the integrated accelerator, cuda absent.
C12_Witness ==
    /\ Pipeline /\ inferCalls = 1 /\ ~cudaAvailable /\ mpsAvailable
    /\ device = "mps" /\ inferArgs = <<1024, 640, TRUE>>


====
